---- MODULE Spec2Model ----
(***************************************************************************)
(* StreamingSubscriber of message/infrastructure/nats/subscriber.go as a  *)
(* state machine: Subscribe calls with their workers and watchers, the     *)
(* per-delivery pipeline processMessage, the consumer of the output        *)
(* streams, and Close.                                                     *)
(*                                                                         *)
(* Go semantics kept by the model:                                         *)
(*   - close of a closed channel, send on a closed channel and a negative  *)
(*     WaitGroup counter panic; an unrecovered panic ends the process, so  *)
(*     every action is guarded by ~panicked;                               *)
(*   - a select entered with several ready cases takes any of them; a      *)
(*     goroutine parked in a select is claimed by the first case to fire;  *)
(*   - s.closed is read in processMessage without the mutex (a data race): *)
(*     the read may miss a write that already happened.                    *)
(***************************************************************************)
EXTENDS Integers, FiniteSets, Sequences, TLC

\* ---- bounds ----
\* Operations of the environment in total: Subscribe calls, cancellations of
\* a caller's scope, broker deliveries and Close calls.
MaxOps == 3
\* Largest configured SubscribersCount.
MaxSubscribersCount == 2

Calls == 1..MaxOps
WorkerNums == 1..MaxSubscribersCount
Workers == Calls \X WorkerNums
Closers == 1..MaxOps

VARIABLES
    config,               \* s.config after setDefaults and Validate: the field read after construction
    closed,               \* s.closed
    closing,              \* s.closing has been closed
    closingCloses,        \* number of close(s.closing) executed
    connCloses,           \* number of s.conn.Close() calls
    subsLock,             \* s.subsLock: 0 when free, else the Close call holding it
    subs,                 \* s.subs
    outputsWg,            \* s.outputsWg counter
    processingMessagesWg, \* s.processingMessagesWg counter
    callPc,               \* position of each Subscribe call
    started,              \* workers a Subscribe call has subscribed so far
    ctxDone,              \* the caller's ctx of a Subscribe call is cancelled
    outputCloses,         \* number of close(output) executed on a call's output
    watcherPc,            \* position of each worker's watcher goroutine
    procPc,               \* position of each worker's delivery callback
    msg,                  \* per worker: the delivery its callback is processing
    resolved,             \* the deliveries whose callback returned in the last such step
    nDelivered,           \* broker deliveries so far
    nSent,                \* messages that entered an output stream so far
    nAcks,                \* calls of a broker message's Ack so far
    lastOut,              \* per worker: the delivery number of its last message to enter the output
    closePc,              \* position of each Close call
    closeResult,          \* what each Close call returned
    waitResult,           \* what WaitGroupTimeout returned to the Close call in progress
    panicked,             \* a goroutine panicked: the process is gone
    newPc,                \* position of the NewStreamingSubscriber call
    newErr,               \* the error NewStreamingSubscriber returns
    connectCalls          \* number of stan.Connect calls

vars == <<config, closed, closing, closingCloses, connCloses, subsLock, subs,
          outputsWg, processingMessagesWg, callPc, started, ctxDone,
          outputCloses, watcherPc, procPc, msg, resolved, nDelivered,
          nSent, nAcks, lastOut, closePc, closeResult, waitResult, panicked,
          newPc, newErr, connectCalls>>

subsVars == <<callPc, started, outputCloses, watcherPc, subs>>
procVars == <<procPc, msg, resolved, nDelivered, nSent, nAcks, lastOut, processingMessagesWg>>
closeVars == <<closed, closing, closingCloses, connCloses, closePc, closeResult, waitResult>>
newVars == <<newPc, newErr, connectCalls>>

\* ---- configuration (subscriber.go 77-113, 139-157) ----

\* time.Second * 30 of lines 82 and 85, in seconds
DefaultCloseTimeout == 30
DefaultAckWaitTimeout == 30

\* The fields setDefaults and Validate read or write.
RawConfigs ==
    [SubscribersCount : -1..MaxSubscribersCount,
     QueueGroup : {"", "g"},
     DurableName : {"", "d"},
     CloseTimeout : {0, 5},
     AckWaitTimeout : {0, 5},
     StanSubscriptionOptions : {<<>>},
     Unmarshaler : {"nil", "set"}]

\* Faulty variant of setDefaults: a SubscribersCount of zero is kept.
setDefaultsKeepsZero(c) ==
    LET ackWait == IF c.AckWaitTimeout <= 0 THEN DefaultAckWaitTimeout ELSE c.AckWaitTimeout
    IN [c EXCEPT
          !.SubscribersCount = IF c.SubscribersCount < 0 THEN 1 ELSE c.SubscribersCount,
          !.CloseTimeout = IF c.CloseTimeout <= 0 THEN DefaultCloseTimeout ELSE c.CloseTimeout,
          !.AckWaitTimeout = ackWait,
          !.StanSubscriptionOptions =
              c.StanSubscriptionOptions \o <<"SetManualAckMode", <<"AckWait", ackWait>>>>
              \o (IF c.DurableName # "" THEN <<<<"DurableName", c.DurableName>>>> ELSE <<>>)]

setDefaults(c) ==
    LET ackWait == IF c.AckWaitTimeout <= 0 THEN DefaultAckWaitTimeout ELSE c.AckWaitTimeout
    IN [c EXCEPT
          !.SubscribersCount = IF c.SubscribersCount <= 0 THEN 1 ELSE c.SubscribersCount,
          !.CloseTimeout = IF c.CloseTimeout <= 0 THEN DefaultCloseTimeout ELSE c.CloseTimeout,
          !.AckWaitTimeout = ackWait,
          !.StanSubscriptionOptions =
              c.StanSubscriptionOptions \o <<"SetManualAckMode", <<"AckWait", ackWait>>>>
              \o (IF c.DurableName # "" THEN <<<<"DurableName", c.DurableName>>>> ELSE <<>>)]

Validate(c) ==
    IF c.Unmarshaler = "nil" THEN "unmarshaler missing"
    ELSE IF c.QueueGroup = "" /\ c.SubscribersCount > 1 THEN "queue group missing"
    ELSE "nil"

\* The configs NewStreamingSubscriber returns a subscriber for.
NewStreamingSubscriber ==
    {setDefaults(c) : c \in {r \in RawConfigs : Validate(setDefaults(r)) = "nil"}}

\* ---- helpers ----

CallOf(w) == w[1]

\* A delivery: the pipeline state st, whether Unmarshal failed, whether the
\* message entered the output stream, the case that won the resolution select,
\* the calls of the broker message's Ack, the per-message scope, the consumer's
\* signals on the message (and whether the ack came before any Close call),
\* whether the delivery before it on the same subscription failed to
\* unmarshal, and its number in the order of the broker's deliveries.
NoDelivery ==
    [st |-> "none", unmarshalErr |-> FALSE, sent |-> FALSE, won |-> "none",
     ackCalls |-> 0, scope |-> "none", acked |-> FALSE, nacked |-> FALSE,
     ackedBeforeClose |-> FALSE, prevFailed |-> FALSE, seq |-> 0]

OutputClosed(c) == outputCloses[c] > 0
ConnClosed == connCloses > 0
SubOpen(w) == watcherPc[w] = "waiting"
InFlight(w) == procPc[w] # "idle"

\* Operations of the environment so far.
Ops ==
    Cardinality({c \in Calls : callPc[c] # "idle"})
    + Cardinality({c \in Calls : ctxDone[c]})
    + nDelivered
    + Cardinality({k \in Closers : closePc[k] # "idle"})

\* What a worker keeps of a delivery once its callback returned.
Idle(m) == [NoDelivery EXCEPT !.prevFailed = m.unmarshalErr]

\* The callback of w returns, leaving its delivery as m.
ReturnFrom(w, m) ==
    /\ msg' = [msg EXCEPT ![w] = Idle(m)]
    /\ resolved' = {[w |-> w, m |-> m]}
    /\ procPc' = [procPc EXCEPT ![w] = "idle"]

\* The fields of the struct literal of lines 151-156 and the goroutines: none
\* running.
Fresh ==
    /\ closed = FALSE
    /\ closing = FALSE
    /\ closingCloses = 0
    /\ connCloses = 0
    /\ subsLock = 0
    /\ subs = {}
    /\ outputsWg = 0
    /\ processingMessagesWg = 0
    /\ callPc = [c \in Calls |-> "idle"]
    /\ started = [c \in Calls |-> 0]
    /\ ctxDone = [c \in Calls |-> FALSE]
    /\ outputCloses = [c \in Calls |-> 0]
    /\ watcherPc = [w \in Workers |-> "none"]
    /\ procPc = [w \in Workers |-> "idle"]
    /\ msg = [w \in Workers |-> NoDelivery]
    /\ resolved = {}
    /\ nDelivered = 0
    /\ nSent = 0
    /\ nAcks = 0
    /\ lastOut = [w \in Workers |-> 0]
    /\ closePc = [k \in Closers |-> "idle"]
    /\ closeResult = [k \in Closers |-> "none"]
    /\ waitResult = "none"
    /\ panicked = FALSE

\* The subscriber NewStreamingSubscriber returned; of its config the run reads
\* SubscribersCount only.
Init ==
    /\ config \in {[SubscribersCount |-> c.SubscribersCount] : c \in NewStreamingSubscriber}
    /\ newPc = "returned"
    /\ newErr = "nil"
    /\ connectCalls = 1
    /\ Fresh

\* ---- Subscribe (subscriber.go 162-200) ----

\* output := make(chan); s.outputsWg.Add(1). Subscribe is called again only
\* once the call before has returned.
SubscribeBegin(c) ==
    /\ ~panicked
    /\ callPc[c] = "idle"
    /\ \A b \in Calls : b < c => callPc[b] \in {"returned", "failed"}
    /\ Ops < MaxOps
    /\ callPc' = [callPc EXCEPT ![c] = "loop"]
    /\ outputsWg' = outputsWg + 1
    /\ UNCHANGED newVars
    /\ UNCHANGED <<config, started, outputCloses, watcherPc, subs, subsLock, ctxDone,
                   panicked>>
    /\ UNCHANGED procVars
    /\ UNCHANGED closeVars

\* lines 194-199: with sub number i registered, the next iteration, or return
AfterRegister(i) == IF i = config.SubscribersCount THEN "returned" ELSE "loop"

\* Faulty variant of SubscribeWorker: a failed subscribe closes the
\* subscriptions the call has started.
SubscribeWorkerRollback(c) ==
    /\ ~panicked
    /\ callPc[c] = "loop"
    /\ \/ /\ ~ConnClosed
          /\ started' = [started EXCEPT ![c] = started[c] + 1]
          /\ watcherPc' = [watcherPc EXCEPT ![<<c, started[c] + 1>>] = "waiting"]
          /\ IF subsLock = 0
             THEN /\ subs' = subs \cup {<<c, started[c] + 1>>}
                  /\ callPc' = [callPc EXCEPT ![c] = AfterRegister(started[c] + 1)]
             ELSE /\ callPc' = [callPc EXCEPT ![c] = "register"]
                  /\ UNCHANGED subs
       \/ /\ callPc' = [callPc EXCEPT ![c] = "failed"]
          /\ watcherPc' = [w \in Workers |->
                              IF CallOf(w) = c /\ watcherPc[w] = "waiting"
                              THEN "finished" ELSE watcherPc[w]]
          /\ UNCHANGED <<started, subs>>
    /\ UNCHANGED newVars
    /\ UNCHANGED <<config, outputCloses, subsLock, ctxDone, outputsWg, panicked>>
    /\ UNCHANGED procVars
    /\ UNCHANGED closeVars

\* One loop iteration: s.subscribe; on success the watcher is spawned and sub
\* is appended to s.subs under s.subsLock, at once when the lock is free. The
\* broker refuses on a closed connection, and may refuse at any time.
SubscribeWorker(c) ==
    /\ ~panicked
    /\ callPc[c] = "loop"
    /\ \/ /\ ~ConnClosed
          /\ started' = [started EXCEPT ![c] = started[c] + 1]
          /\ watcherPc' = [watcherPc EXCEPT ![<<c, started[c] + 1>>] = "waiting"]
          /\ IF subsLock = 0
             THEN /\ subs' = subs \cup {<<c, started[c] + 1>>}
                  /\ callPc' = [callPc EXCEPT ![c] = AfterRegister(started[c] + 1)]
             ELSE /\ callPc' = [callPc EXCEPT ![c] = "register"]
                  /\ UNCHANGED subs
       \/ /\ callPc' = [callPc EXCEPT ![c] = "failed"]
          /\ UNCHANGED <<started, watcherPc, subs>>
    /\ UNCHANGED newVars
    /\ UNCHANGED <<config, outputCloses, subsLock, ctxDone, outputsWg, panicked>>
    /\ UNCHANGED procVars
    /\ UNCHANGED closeVars

\* s.subsLock.Lock() of a call that found the lock held by Close; then as above
SubscribeRegister(c) ==
    /\ ~panicked
    /\ callPc[c] = "register"
    /\ subsLock = 0
    /\ subs' = subs \cup {<<c, started[c]>>}
    /\ callPc' = [callPc EXCEPT ![c] = AfterRegister(started[c])]
    /\ UNCHANGED newVars
    /\ UNCHANGED <<config, started, outputCloses, watcherPc, subsLock, ctxDone,
                   outputsWg, panicked>>
    /\ UNCHANGED procVars
    /\ UNCHANGED closeVars

\* ---- the caller's scope ----

\* The caller cancels the ctx it passed to Subscribe call c; the per-message
\* scopes derived from it (context.WithCancel(ctx), line 258) are cancelled too.
CancelCtx(c) ==
    /\ ~panicked
    /\ callPc[c] # "idle"
    /\ ~ctxDone[c]
    /\ Ops < MaxOps
    /\ ctxDone' = [ctxDone EXCEPT ![c] = TRUE]
    /\ msg' = [w \in Workers |->
                 IF CallOf(w) = c /\ msg[w].scope = "live"
                 THEN [msg[w] EXCEPT !.scope = "cancelled"]
                 ELSE msg[w]]
    /\ UNCHANGED newVars
    /\ UNCHANGED <<config, subsLock, outputsWg, panicked, procPc, resolved, nDelivered, lastOut, nSent, nAcks,
                   processingMessagesWg>>
    /\ UNCHANGED subsVars
    /\ UNCHANGED closeVars

\* ---- the watcher goroutine of a worker (subscriber.go 179-192) ----

\* The whole goroutine: the select on s.closing and ctx.Done() unblocks;
\* sub.Close(), its error only logged; close(output); s.outputsWg.Done().
\* close panics when output is closed already, Done on a counter of zero; a
\* callback parked in the send on output is woken to panic (send on closed
\* channel).
Watcher(w) ==
    /\ ~panicked
    /\ watcherPc[w] = "waiting"
    /\ closing \/ ctxDone[CallOf(w)]
    /\ outputCloses' = [outputCloses EXCEPT ![CallOf(w)] = @ + 1]
    /\ IF OutputClosed(CallOf(w)) \/ outputsWg = 0
       THEN /\ panicked' = TRUE
            /\ watcherPc' = [watcherPc EXCEPT ![w] = "panic"]
            /\ UNCHANGED <<procPc, outputsWg>>
       ELSE /\ watcherPc' = [watcherPc EXCEPT ![w] = "finished"]
            /\ outputsWg' = outputsWg - 1
            /\ procPc' = [v \in Workers |->
                            IF CallOf(v) = CallOf(w) /\ procPc[v] = "wait1"
                            THEN "sendPanic" ELSE procPc[v]]
            /\ UNCHANGED panicked
    /\ UNCHANGED newVars
    /\ UNCHANGED <<config, callPc, started, subs, subsLock, ctxDone,
                   msg, resolved, nDelivered, lastOut, nSent, nAcks, processingMessagesWg>>
    /\ UNCHANGED closeVars

\* ---- processMessage (subscriber.go 237-289) ----

\* What the unsynchronised read of s.closed (line 243) may return.
ReadClosed == IF closed THEN {TRUE, FALSE} ELSE {FALSE}

\* Faulty variant of UnmarshalPc: the return on an Unmarshal error is missing.
UnmarshalPcNoReturn(ok) == "select1"

\* lines 252-256: on an Unmarshal error processMessage returns, else it goes on
\* to the send
UnmarshalPc(ok) == IF ok THEN "select1" ELSE "idle"

\* lines 252-259: the message as Unmarshal leaves it; on success the scope is
\* derived from the caller's ctx
Unmarshal(m, ok, parentDone) ==
    IF ok
    THEN [m EXCEPT !.st = "Deserialized",
                   !.scope = IF parentDone THEN "cancelled" ELSE "live"]
    ELSE [m EXCEPT !.st = "UnmarshalFailed", !.unmarshalErr = TRUE]

\* The broker runs the subscription's callback on a new delivery (one callback
\* at a time per subscription, none once the subscription is closed), and the
\* callback runs up to the send: lines 243-263.
Deliver(w) ==
    /\ ~panicked
    /\ SubOpen(w)
    /\ ~ConnClosed
    /\ procPc[w] = "idle"
    /\ Ops < MaxOps
    /\ nDelivered' = nDelivered + 1
    /\ UNCHANGED <<nSent, nAcks, lastOut>>
    /\ \E seenClosed \in ReadClosed, ok \in BOOLEAN :
         LET m == [msg[w] EXCEPT !.st = "Received", !.seq = nDelivered + 1]
             u == Unmarshal(m, ok, ctxDone[CallOf(w)])
         IN IF seenClosed
            THEN /\ ok
                 /\ ReturnFrom(w, [m EXCEPT !.st = "Dropped"])
                 /\ UNCHANGED processingMessagesWg
            ELSE IF UnmarshalPc(ok) = "idle"
            THEN /\ ReturnFrom(w, u)
                 /\ UNCHANGED processingMessagesWg
            ELSE /\ msg' = [msg EXCEPT ![w] = u]
                 /\ procPc' = [procPc EXCEPT ![w] = UnmarshalPc(ok)]
                 /\ processingMessagesWg' = processingMessagesWg + 1
                 /\ UNCHANGED resolved
    /\ UNCHANGED newVars
    /\ UNCHANGED <<config, subsLock, ctxDone, outputsWg, panicked>>
    /\ UNCHANGED subsVars
    /\ UNCHANGED closeVars

\* Faulty variant of Deferred: cancelCtx() is not called on the timeout path.
DeferredNotOnTimeout(m) ==
    IF m.st = "TimedOut" THEN m ELSE [m EXCEPT !.scope = "cancelled"]

\* line 260: defer cancelCtx(), run at every exit after the scope exists
Deferred(m) == [m EXCEPT !.scope = "cancelled"]

\* Faulty variant of CasePc: the nack case falls into the ack case.
CasePcAckOnNack(sig) == IF sig \in {"ack", "nack"} THEN "ackCase" ELSE "idle"

\* Where each case of the resolution select (lines 273-288) leads: the ack
\* case goes on to m.Ack(), the others return.
CasePc(sig) == IF sig = "ack" THEN "ackCase" ELSE "idle"

CaseState(sig) ==
    CASE sig = "ack" -> "Delivered"
      [] sig = "nack" -> "Nacked"
      [] sig = "timeout" -> "TimedOut"
      [] sig = "closing" -> "Discarded"

\* The message once case sig has claimed the callback; a case that returns
\* runs the deferred calls.
Claimed(m, sig) ==
    LET n == [m EXCEPT !.st = CaseState(sig), !.won = sig]
    IN IF CasePc(sig) = "idle" THEN Deferred(n) ELSE n

\* The callback of w takes case sig of a select.
TakeCase(w, m, sig) ==
    IF CasePc(sig) = "idle"
    THEN /\ ReturnFrom(w, Claimed(m, sig))
         /\ processingMessagesWg' = processingMessagesWg - 1
    ELSE /\ msg' = [msg EXCEPT ![w] = Claimed(m, sig)]
         /\ procPc' = [procPc EXCEPT ![w] = CasePc(sig)]
         /\ UNCHANGED <<resolved, processingMessagesWg>>

\* lines 265-271, entering the select without a consumer receiving: with
\* closing closed the closing case is ready; with output closed the send case
\* panics; with neither the callback parks.
Select1(w) ==
    /\ ~panicked
    /\ procPc[w] = "select1"
    /\ \/ /\ closing
          /\ TakeCase(w, msg[w], "closing")
       \/ /\ OutputClosed(CallOf(w))
          /\ procPc' = [procPc EXCEPT ![w] = "sendPanic"]
          /\ UNCHANGED <<msg, resolved, processingMessagesWg>>
       \/ /\ ~closing
          /\ ~OutputClosed(CallOf(w))
          /\ procPc' = [procPc EXCEPT ![w] = "wait1"]
          /\ UNCHANGED <<msg, resolved, processingMessagesWg>>
    /\ UNCHANGED newVars
    /\ UNCHANGED <<config, subsLock, ctxDone, outputsWg, panicked, nDelivered, lastOut, nSent, nAcks>>
    /\ UNCHANGED subsVars
    /\ UNCHANGED closeVars

\* Faulty variant of Handoff: after the send the callback is back at the send
\* select.
HandoffResend(w) ==
    /\ ~panicked
    /\ procPc[w] \in {"select1", "wait1"}
    /\ ~OutputClosed(CallOf(w))
    /\ procPc' = [procPc EXCEPT ![w] = "select1"]
    /\ msg' = [msg EXCEPT ![w].st = "Delivered", ![w].sent = TRUE]
    /\ nSent' = nSent + 1
    /\ lastOut' = [lastOut EXCEPT ![w] = msg[w].seq]
    /\ UNCHANGED newVars
    /\ UNCHANGED <<config, subsLock, ctxDone, outputsWg, panicked, resolved, nDelivered,
                   nAcks, processingMessagesWg>>
    /\ UNCHANGED subsVars
    /\ UNCHANGED closeVars

\* Faulty variant of Handoff: the callback returns right after the send
\* instead of going on to the resolution select.
HandoffNoWait(w) ==
    /\ ~panicked
    /\ procPc[w] \in {"select1", "wait1"}
    /\ ~OutputClosed(CallOf(w))
    /\ ReturnFrom(w, Deferred([msg[w] EXCEPT !.st = "Delivered", !.sent = TRUE]))
    /\ nSent' = nSent + 1
    /\ lastOut' = [lastOut EXCEPT ![w] = msg[w].seq]
    /\ processingMessagesWg' = processingMessagesWg - 1
    /\ UNCHANGED newVars
    /\ UNCHANGED <<config, subsLock, ctxDone, outputsWg, panicked, nDelivered, nAcks>>
    /\ UNCHANGED subsVars
    /\ UNCHANGED closeVars

\* case output <- msg (line 266): the consumer receives the message from the
\* unbuffered output, from a select being entered or from a parked one
Handoff(w) ==
    /\ ~panicked
    /\ procPc[w] \in {"select1", "wait1"}
    /\ ~OutputClosed(CallOf(w))
    /\ procPc' = [procPc EXCEPT ![w] = "select2"]
    /\ msg' = [msg EXCEPT ![w].st = "Delivered", ![w].sent = TRUE]
    /\ nSent' = nSent + 1
    /\ lastOut' = [lastOut EXCEPT ![w] = msg[w].seq]
    /\ UNCHANGED newVars
    /\ UNCHANGED <<config, subsLock, ctxDone, outputsWg, panicked, resolved, nDelivered,
                   nAcks, processingMessagesWg>>
    /\ UNCHANGED subsVars
    /\ UNCHANGED closeVars

\* the panic of a send on a closed output; the deferred calls run first
SendPanic(w) ==
    /\ ~panicked
    /\ procPc[w] = "sendPanic"
    /\ panicked' = TRUE
    /\ msg' = [msg EXCEPT ![w] = Deferred(msg[w])]
    /\ processingMessagesWg' = processingMessagesWg - 1
    /\ UNCHANGED newVars
    /\ UNCHANGED <<config, subsLock, ctxDone, outputsWg, procPc, resolved, nDelivered, lastOut, nSent, nAcks>>
    /\ UNCHANGED subsVars
    /\ UNCHANGED closeVars

\* The cases of the resolution select that are ready when it is entered; the
\* timer of time.After (line 282) starts only then.
ReadySignals(m) ==
    (IF m.acked THEN {"ack"} ELSE {})
    \cup (IF m.nacked THEN {"nack"} ELSE {})
    \cup (IF closing THEN {"closing"} ELSE {})

\* Faulty variant of Select2: with no case ready the select does not block
\* and the callback returns.
Select2Default(w) ==
    /\ ~panicked
    /\ procPc[w] = "select2"
    /\ IF ReadySignals(msg[w]) = {}
       THEN /\ ReturnFrom(w, Deferred(msg[w]))
            /\ processingMessagesWg' = processingMessagesWg - 1
       ELSE \E sig \in ReadySignals(msg[w]) : TakeCase(w, msg[w], sig)
    /\ UNCHANGED newVars
    /\ UNCHANGED <<config, subsLock, ctxDone, outputsWg, panicked, nDelivered, lastOut, nSent, nAcks>>
    /\ UNCHANGED subsVars
    /\ UNCHANGED closeVars

\* lines 273-288, entering the resolution select
Select2(w) ==
    /\ ~panicked
    /\ procPc[w] = "select2"
    /\ IF ReadySignals(msg[w]) = {}
       THEN /\ procPc' = [procPc EXCEPT ![w] = "wait2"]
            /\ UNCHANGED <<msg, resolved, processingMessagesWg>>
       ELSE \E sig \in ReadySignals(msg[w]) : TakeCase(w, msg[w], sig)
    /\ UNCHANGED newVars
    /\ UNCHANGED <<config, subsLock, ctxDone, outputsWg, panicked, nDelivered, lastOut, nSent, nAcks>>
    /\ UNCHANGED subsVars
    /\ UNCHANGED closeVars

\* case <-time.After(s.config.AckWaitTimeout) of a parked resolution select
AckWaitTimeout(w) ==
    /\ ~panicked
    /\ procPc[w] = "wait2"
    /\ TakeCase(w, msg[w], "timeout")
    /\ UNCHANGED newVars
    /\ UNCHANGED <<config, subsLock, ctxDone, outputsWg, panicked, nDelivered, lastOut, nSent, nAcks>>
    /\ UNCHANGED subsVars
    /\ UNCHANGED closeVars

\* Faulty variant of BrokerAck: m.Ack() is not called.
BrokerAckSkipped(m) == [m EXCEPT !.st = "Acked"]

\* line 275: m.Ack()
BrokerAck(m) == [m EXCEPT !.ackCalls = @ + 1, !.st = "Acked"]

\* case <-msg.Acked() (lines 274-278): m.Ack(), its error only logged; return
AckCase(w) ==
    /\ ~panicked
    /\ procPc[w] = "ackCase"
    /\ ReturnFrom(w, Deferred(BrokerAck(msg[w])))
    /\ nAcks' = nAcks + BrokerAck(msg[w]).ackCalls
    /\ processingMessagesWg' = processingMessagesWg - 1
    /\ UNCHANGED newVars
    /\ UNCHANGED <<config, subsLock, ctxDone, outputsWg, panicked, nDelivered, lastOut, nSent>>
    /\ UNCHANGED subsVars
    /\ UNCHANGED closeVars

\* ---- the consumer of the output streams ----

\* A signal of the consumer on the message it received from w, while the
\* callback still holds the message: it claims the callback if that is parked
\* in the resolution select. Ack and Nack exclude each other.
Signal(w, sig) ==
    /\ LET m == [msg[w] EXCEPT !.acked = (sig = "ack"), !.nacked = (sig = "nack"),
                               !.ackedBeforeClose = (sig = "ack" /\ ~closed)]
       IN IF procPc[w] = "wait2"
          THEN TakeCase(w, m, sig)
          ELSE /\ msg' = [msg EXCEPT ![w] = m]
               /\ UNCHANGED <<procPc, resolved, processingMessagesWg>>
    /\ UNCHANGED newVars
    /\ UNCHANGED <<config, subsLock, ctxDone, outputsWg, panicked, nDelivered, lastOut, nSent, nAcks>>
    /\ UNCHANGED subsVars
    /\ UNCHANGED closeVars

\* msg.Ack() by the consumer
ConsumerAck(w) ==
    /\ ~panicked
    /\ InFlight(w)
    /\ msg[w].sent
    /\ ~msg[w].acked
    /\ ~msg[w].nacked
    /\ Signal(w, "ack")

\* msg.Nack() by the consumer
ConsumerNack(w) ==
    /\ ~panicked
    /\ InFlight(w)
    /\ msg[w].sent
    /\ ~msg[w].acked
    /\ ~msg[w].nacked
    /\ Signal(w, "nack")

\* ---- Close (subscriber.go 291-313) ----

\* Faulty variant of CloseBegin: s.closed = true is missing.
CloseBeginUnflagged(k) ==
    /\ ~panicked
    /\ closePc[k] = "idle"
    /\ \A j \in Closers : j < k => closePc[j] # "idle"
    /\ Ops < MaxOps
    /\ subsLock = 0
    /\ IF closed
       THEN /\ closePc' = [closePc EXCEPT ![k] = "noop"]
            /\ closeResult' = [closeResult EXCEPT ![k] = "nil"]
            /\ UNCHANGED subsLock
       ELSE /\ subsLock' = k
            /\ closePc' = [closePc EXCEPT ![k] = "broadcast"]
            /\ UNCHANGED closeResult
    /\ UNCHANGED newVars
    /\ UNCHANGED <<config, closed, closing, closingCloses, connCloses, waitResult,
                   ctxDone, outputsWg, panicked>>
    /\ UNCHANGED subsVars
    /\ UNCHANGED procVars

\* lines 292-298: Lock, the closed check, closed = true. Close calls are
\* numbered in the order they take the lock.
CloseBegin(k) ==
    /\ ~panicked
    /\ closePc[k] = "idle"
    /\ \A j \in Closers : j < k => closePc[j] # "idle"
    /\ Ops < MaxOps
    /\ subsLock = 0
    /\ IF closed
       THEN /\ closePc' = [closePc EXCEPT ![k] = "noop"]
            /\ closeResult' = [closeResult EXCEPT ![k] = "nil"]
            /\ UNCHANGED <<closed, subsLock>>
       ELSE /\ closed' = TRUE
            /\ subsLock' = k
            /\ closePc' = [closePc EXCEPT ![k] = "broadcast"]
            /\ UNCHANGED closeResult
    /\ UNCHANGED newVars
    /\ UNCHANGED <<config, closing, closingCloses, connCloses, waitResult, ctxDone,
                   outputsWg, panicked>>
    /\ UNCHANGED subsVars
    /\ UNCHANGED procVars

\* line 305: close(s.closing) claims every callback parked in a select; it
\* panics on a closed channel
CloseBroadcast(k) ==
    /\ ~panicked
    /\ closePc[k] = "broadcast"
    /\ closingCloses' = closingCloses + 1
    /\ IF closing
       THEN /\ panicked' = TRUE
            /\ UNCHANGED <<closing, closePc, procPc, msg, resolved, processingMessagesWg>>
       ELSE /\ closing' = TRUE
            /\ closePc' = [closePc EXCEPT ![k] = "wait"]
            /\ LET parked == {w \in Workers : procPc[w] \in {"wait1", "wait2"}}
               IN /\ procPc' = [w \in Workers |->
                                  IF w \in parked THEN CasePc("closing") ELSE procPc[w]]
                  /\ msg' = [w \in Workers |->
                               IF w \in parked THEN Idle(msg[w]) ELSE msg[w]]
                  /\ resolved' = IF parked = {} THEN resolved
                                  ELSE {[w |-> w, m |-> Claimed(msg[w], "closing")] : w \in parked}
                  /\ processingMessagesWg' = processingMessagesWg - Cardinality(parked)
            /\ UNCHANGED panicked
    /\ UNCHANGED newVars
    /\ UNCHANGED <<config, closed, connCloses, closeResult, waitResult, subsLock,
                   ctxDone, outputsWg, nDelivered, lastOut, nSent, nAcks>>
    /\ UNCHANGED subsVars

\* line 306: internalSync.WaitGroupTimeout(&s.outputsWg, s.config.CloseTimeout)
\* returns when the counter is zero, or when the close timeout elapses
WaitGroupTimeout(k) ==
    /\ ~panicked
    /\ closePc[k] = "wait"
    /\ \/ /\ outputsWg = 0
          /\ waitResult' = "done"
       \/ /\ waitResult' = "timeout"
    /\ closePc' = [closePc EXCEPT ![k] = "conn"]
    /\ UNCHANGED newVars
    /\ UNCHANGED <<config, closed, closing, closingCloses, connCloses, closeResult,
                   subsLock, ctxDone, outputsWg, panicked>>
    /\ UNCHANGED subsVars
    /\ UNCHANGED procVars

\* lines 308-312: s.conn.Close(), taken to succeed; return result; Unlock
CloseConn(k) ==
    /\ ~panicked
    /\ closePc[k] = "conn"
    /\ connCloses' = connCloses + 1
    /\ closeResult' = [closeResult EXCEPT ![k] = "nil"]
    /\ closePc' = [closePc EXCEPT ![k] = "returned"]
    /\ subsLock' = 0
    /\ waitResult' = "none"
    /\ UNCHANGED newVars
    /\ UNCHANGED <<config, closed, closing, closingCloses, ctxDone,
                   outputsWg, panicked>>
    /\ UNCHANGED subsVars
    /\ UNCHANGED procVars

Next ==
    \/ \E c \in Calls : SubscribeBegin(c)
    \/ \E c \in Calls : SubscribeWorker(c)
    \/ \E c \in Calls : SubscribeRegister(c)
    \/ \E c \in Calls : CancelCtx(c)
    \/ \E w \in Workers : Watcher(w)
    \/ \E w \in Workers : Deliver(w)
    \/ \E w \in Workers : Select1(w)
    \/ \E w \in Workers : Handoff(w)
    \/ \E w \in Workers : SendPanic(w)
    \/ \E w \in Workers : Select2(w)
    \/ \E w \in Workers : AckWaitTimeout(w)
    \/ \E w \in Workers : AckCase(w)
    \/ \E w \in Workers : ConsumerAck(w)
    \/ \E w \in Workers : ConsumerNack(w)
    \/ \E k \in Closers : CloseBegin(k)
    \/ \E k \in Closers : CloseBroadcast(k)
    \/ \E k \in Closers : WaitGroupTimeout(k)
    \/ \E k \in Closers : CloseConn(k)

Spec == Init /\ [][Next]_vars

\* ---- NewStreamingSubscriber (subscriber.go 139-157), step by step ----

\* A call of NewStreamingSubscriber with any configuration.
ConfigInit ==
    /\ config \in RawConfigs
    /\ newPc = "start"
    /\ newErr = "none"
    /\ connectCalls = 0
    /\ Fresh

NewUnchanged ==
    UNCHANGED <<closed, closing, closingCloses, connCloses, subsLock, subs,
                outputsWg, processingMessagesWg, callPc, started, ctxDone,
                outputCloses, watcherPc, procPc, msg, resolved, nDelivered,
                nSent, nAcks, lastOut, closePc, closeResult, waitResult, panicked>>

\* line 140: config.setDefaults()
NewSetDefaults ==
    /\ newPc = "start"
    /\ config' = setDefaults(config)
    /\ newPc' = "defaulted"
    /\ UNCHANGED <<newErr, connectCalls>>
    /\ NewUnchanged

\* lines 142-144: config.Validate(); its error is returned
NewValidate ==
    /\ newPc = "defaulted"
    /\ IF Validate(config) # "nil"
       THEN newPc' = "failed" /\ newErr' = Validate(config)
       ELSE newPc' = "connect" /\ UNCHANGED newErr
    /\ UNCHANGED <<config, connectCalls>>
    /\ NewUnchanged

\* lines 146-156: stan.Connect, which may fail; the subscriber is returned
NewConnect ==
    /\ newPc = "connect"
    /\ connectCalls' = connectCalls + 1
    /\ \/ newPc' = "returned" /\ newErr' = "nil"
       \/ newPc' = "failed" /\ newErr' = "cannot connect to NATS"
    /\ UNCHANGED config
    /\ NewUnchanged

ConfigNext == NewSetDefaults \/ NewValidate \/ NewConnect

ConfigSpec == ConfigInit /\ [][ConfigNext]_vars

\* ---- the queue-group scenario: a consumer that reads and acks everything ----

\* A delivery of a message that unmarshals.
QueueDeliver(w) == Deliver(w) /\ procPc'[w] = "select1"

\* No Close, no cancelled scope, no nack, and the consumer acks before the
\* ack-wait timeout.
QueueNext ==
    \/ \E c \in Calls : SubscribeBegin(c)
    \/ \E c \in Calls : SubscribeWorker(c)
    \/ \E w \in Workers : QueueDeliver(w)
    \/ \E w \in Workers : Select1(w)
    \/ \E w \in Workers : Handoff(w)
    \/ \E w \in Workers : Select2(w)
    \/ \E w \in Workers : AckCase(w)
    \/ \E w \in Workers : ConsumerAck(w)

QueueSpec == Init /\ [][QueueNext]_vars

\* ---- properties ----

C11_AckBeforeCloseIsIssued ==
    \A r \in resolved :
        (r.m.sent /\ r.m.ackedBeforeClose) => r.m.ackCalls = 1

\* C12: with a consumer that reads and acks every message, and no Close, scope
\* cancellation, nack or timeout, every delivery enters the output stream
\* exactly once (the sends so far are the deliveries less those still waiting
\* to be sent), every message sent gets exactly one broker Ack (the Acks so far
\* are the sends less those still in resolution), a delivery is processed by
\* the worker it was delivered to, and once all callbacks have returned the
\* sends and the broker Acks both equal the deliveries.
C12_QueueGroupExactlyOnce ==
    LET beforeSend == {w \in Workers : procPc[w] \in {"select1", "wait1"}}
        afterSend == {w \in Workers : procPc[w] \in {"select2", "wait2", "ackCase"}}
    IN /\ nSent = nDelivered - Cardinality(beforeSend)
       /\ nAcks = nSent - Cardinality(afterSend)
       /\ \A w \in Workers :
            /\ InFlight(w) => (w \in beforeSend \cup afterSend /\ SubOpen(w))
            /\ InFlight(w) => (msg[w].sent <=> w \in afterSend)
            /\ msg[w].ackCalls = 0
       /\ \A r \in resolved :
            r.m.sent /\ r.m.st = "Acked" /\ r.m.ackCalls = 1
       /\ (\A w \in Workers : ~InFlight(w)) => (nSent = nDelivered /\ nAcks = nDelivered)

C12_Witness ==
    /\ config.SubscribersCount > 1
    /\ nDelivered > 1
    /\ nAcks = nDelivered
    /\ nSent = nDelivered
    /\ \A w \in Workers : ~InFlight(w)

\* C13: a Subscribe call that failed at its k-th subscribe has returned the
\* error with k-1 workers started and none after them; those workers are not
\* rolled back: their subscriptions are open and their watchers wait as long
\* as neither the closing signal nor the call's scope cancellation has come,
\* the call's output is not closed before that, and once either has come a
\* waiting watcher of a live process can run and close its subscription.
C13_FailedSubscribeKeepsWorkers ==
    \A c \in Calls :
        callPc[c] = "failed" =>
            /\ started[c] < config.SubscribersCount
            /\ (~closing /\ ~ctxDone[c]) => outputCloses[c] = 0
            /\ \A i \in WorkerNums :
                 /\ i > started[c] => watcherPc[<<c, i>>] = "none"
                 /\ i <= started[c] =>
                      /\ watcherPc[<<c, i>>] # "none"
                      /\ (~closing /\ ~ctxDone[c]) => SubOpen(<<c, i>>)
                      /\ ((closing \/ ctxDone[c]) /\ SubOpen(<<c, i>>) /\ ~panicked)
                            => ENABLED Watcher(<<c, i>>)

\* a failed call's worker outlived the failure and was closed by Close
C13_Witness ==
    \E c \in Calls :
        /\ callPc[c] = "failed"
        /\ started[c] >= 1
        /\ closing
        /\ ~ctxDone[c]
        /\ watcherPc[<<c, 1>>] = "finished"

\* C14: setDefaults turns a worker count <= 0 into 1 and keeps a positive one,
\* so that such a config with an Unmarshaler passes validation with or without
\* a queue group; validation of the defaulted config fails exactly when the
\* Unmarshaler is unset or the worker count is above 1 with an empty queue
\* group; on failure the error is returned and stan.Connect is never called,
\* which is attempted only once validation has passed.
C14_ValidationBeforeConnect ==
    [][ /\ (newPc = "start" /\ newPc' # "start") =>
             /\ config.SubscribersCount <= 0 => config'.SubscribersCount = 1
             /\ config.SubscribersCount > 0 => config'.SubscribersCount = config.SubscribersCount
             /\ config'.QueueGroup = config.QueueGroup
             /\ config'.Unmarshaler = config.Unmarshaler
             /\ (config.SubscribersCount <= 0 /\ config.Unmarshaler = "set")
                    => Validate(config') = "nil"
        /\ (newPc = "defaulted" /\ newPc' # "defaulted") =>
             /\ newPc' = "failed" <=>
                    \/ config.Unmarshaler = "nil"
                    \/ config.SubscribersCount > 1 /\ config.QueueGroup = ""
             /\ newPc' = "failed" => (newErr' \notin {"nil", "none"} /\ connectCalls' = 0)
             /\ newPc' # "failed" => newPc' = "connect"
             /\ config' = config
        /\ connectCalls' # connectCalls => newPc = "connect"
      ]_vars

C14_Witness ==
    /\ newPc = "failed"
    /\ config.Unmarshaler = "set"
    /\ config.QueueGroup = ""
    /\ config.SubscribersCount > 1
    /\ newErr = "queue group missing"
    /\ connectCalls = 0

\* C15 as stated: at the step where WaitGroupTimeout lets Close go on before
\* the close timeout, every watcher that was started has finished; and when
\* Close waits with no Subscribe call under way and every started watcher
\* finished, the wait is over (the counter is zero), so Close does not sit out
\* the timeout.
C15_WaitCoversWatchers ==
    [][ /\ (waitResult # "done" /\ waitResult' = "done") =>
             \A w \in Workers : watcherPc[w] \in {"none", "finished"}
        /\ ( /\ \E k \in Closers : closePc'[k] = "wait"
             /\ \A c \in Calls : callPc'[c] \in {"idle", "returned", "failed"}
             /\ \A w \in Workers : watcherPc'[w] \in {"none", "finished"} )
              => outputsWg' = 0
      ]_vars

\* C16: a callback that returned after handing its message over left it Acked,
\* Nacked, TimedOut or Discarded; a message that is delivered and unresolved
\* has its callback inside the resolution select; so the unresolved messages
\* of a Subscribe call are at most one per worker it started, at most
\* SubscribersCount in all.
C16_CallbackBlocksUntilResolved ==
    /\ \A r \in resolved :
          r.m.sent => r.m.st \in {"Acked", "Nacked", "TimedOut", "Discarded"}
    /\ \A w \in Workers :
          /\ msg[w].sent => (msg[w].st = "Delivered"
                             /\ procPc[w] \in {"select2", "wait2", "ackCase"})
          /\ ~InFlight(w) => msg[w].st = "none"
          /\ InFlight(w) => w[2] <= started[CallOf(w)]
    /\ \A c \in Calls :
          /\ Cardinality({w \in Workers : CallOf(w) = c /\ msg[w].sent})
                <= started[c]
          /\ started[c] <= config.SubscribersCount

\* every worker of a call holds an unresolved message
C16_Witness ==
    /\ config.SubscribersCount > 1
    /\ \E c \in Calls :
          \A i \in 1..config.SubscribersCount :
              msg[<<c, i>>].sent /\ msg[<<c, i>>].st = "Delivered"

\* C17 as stated: at the step where Close closes the connection after a wait
\* that ended before the close timeout, no processMessage invocation is in
\* flight.
C17_NoCallbackAtConnClose ==
    [][ (connCloses' > connCloses /\ waitResult = "done") =>
            \A w \in Workers : ~InFlight(w)
      ]_vars

\* C18 as stated: the cancellation of a call's scope releases the callbacks of
\* that call as the closing signal does, so none of them stays blocked in the
\* send or in the resolution select once the scope is cancelled, and none is
\* left to the panic of a send on the closed output.
C18_CancelReleasesCallbacks ==
    \A w \in Workers :
        ctxDone[CallOf(w)] => procPc[w] \notin {"wait1", "wait2", "sendPanic"}

\* C19 as stated, in the form a finite run refutes: a callback that has handed
\* its message over can always take its next step towards returning without
\* the consumer and without Close: entering the resolution select, the
\* ack-wait timeout once parked there, or the return of the case it took.
C19_WaitEndsWithoutConsumer ==
    \A w \in Workers :
        (InFlight(w) /\ msg[w].sent) =>
            ENABLED (Select2(w) \/ AckWaitTimeout(w) \/ AckCase(w))

\* C20: a worker's messages enter the output stream in the order of their
\* delivery numbers and none enters twice: the message of a callback past the
\* send is the last one its worker put on the output; a message waiting to be
\* sent is newer than everything its worker has put there, and the worker's
\* callback was not given a newer one meanwhile; no delivery number is on the
\* output for two workers, and the output has seen no more messages than the
\* broker delivered less those still waiting to be sent.
C20_OutputKeepsDeliveryOrder ==
    /\ \A w \in Workers :
          /\ msg[w].sent =>
                (lastOut[w] = msg[w].seq
                 /\ procPc[w] \in {"select2", "wait2", "ackCase"})
          /\ (InFlight(w) /\ ~msg[w].sent) =>
                (lastOut[w] < msg[w].seq /\ procPc[w] \in {"select1", "wait1", "sendPanic"})
          /\ InFlight(w) => (1 <= msg[w].seq /\ msg[w].seq <= nDelivered)
          /\ lastOut[w] <= nDelivered
          /\ lastOut[w] # 0 => \A v \in Workers \ {w} : lastOut[v] # lastOut[w]
    /\ Cardinality({w \in Workers : lastOut[w] # 0}) <= nSent
    /\ nSent + Cardinality({w \in Workers : InFlight(w) /\ ~msg[w].sent}) <= nDelivered

\* one worker has put two deliveries on the output, the later one last
C20_Witness ==
    \E w \in Workers :
        /\ nDelivered > 1
        /\ nSent = nDelivered
        /\ lastOut[w] = nDelivered
        /\ \A v \in Workers \ {w} : lastOut[v] = 0

\* C2: the broker Ack of a delivery is called at most once, and only when the
\* consumer's ack signal won the resolution select; a delivery dropped at
\* receipt, discarded before or after the handoff, nacked or timed out has no
\* broker Ack call.
C2_AckOnlyWhenAckWon ==
    /\ \A w \in Workers : msg[w].ackCalls = 0
    /\ \A r \in resolved :
        /\ r.m.ackCalls <= 1
        /\ r.m.ackCalls = 1 =>
              (r.m.won = "ack" /\ r.m.acked /\ r.m.sent /\ r.m.st = "Acked")
        /\ r.m.st \in {"Dropped", "UnmarshalFailed", "Discarded", "Nacked", "TimedOut"}
              => r.m.ackCalls = 0
        /\ r.m.won \in {"nack", "timeout", "closing"} => r.m.ackCalls = 0

C2_Witness ==
    \E r \in resolved :
        r.m.sent /\ r.m.nacked /\ r.m.st = "Nacked" /\ r.m.ackCalls = 0

\* C3: when processMessage has returned, the per-message scope it created is
\* cancelled, whichever case ended it; a message that timed out has its scope
\* cancelled and no broker Ack.
C3_ScopeCancelledOnReturn ==
    \A r \in resolved :
        /\ r.m.scope # "none" => r.m.scope = "cancelled"
        /\ r.m.st \in {"Acked", "Nacked", "TimedOut", "Discarded"} => r.m.scope = "cancelled"
        /\ r.m.st = "TimedOut" => r.m.ackCalls = 0

C3_Witness ==
    \E r \in resolved :
        r.m.st = "TimedOut" /\ r.m.scope = "cancelled" /\ ~ctxDone[CallOf(r.w)]

\* C4: a delivery whose Unmarshal fails never reaches the send: the callback
\* returns at once (before it joins the in-flight group) with nothing on the
\* output stream, no broker Ack and no scope, and the step leaves the
\* subscriber open: the closed flag, the closing signal,
\* the connection, the subscriptions and the output streams are unchanged.
C4_UnmarshalFailureDrops ==
    [][ /\ \A w \in Workers : ~(procPc'[w] # "idle" /\ msg'[w].unmarshalErr)
        /\ (nDelivered' # nDelivered /\ processingMessagesWg' = processingMessagesWg) =>
             \A r \in resolved' :
                r.m.unmarshalErr =>
                    /\ r.m.st = "UnmarshalFailed"
                    /\ ~r.m.sent
                    /\ r.m.ackCalls = 0
                    /\ r.m.scope = "none"
                    /\ procPc'[r.w] = "idle"
                    /\ ~panicked'
                    /\ UNCHANGED <<closed, closing, connCloses, watcherPc, outputCloses>>
      ]_vars

\* a later delivery on the subscription of a failed one is processed and acked
C4_Witness ==
    \E r \in resolved :
        r.m.prevFailed /\ r.m.st = "Acked" /\ r.m.ackCalls = 1

\* C5: over any number of Close calls the closing signal is broadcast once and
\* the connection closed once; only one call does the work, and every call
\* after it is a no-op that returns nil.
C5_CloseOnce ==
    /\ closingCloses <= 1
    /\ connCloses <= 1
    /\ Cardinality({k \in Closers : closePc[k] \in {"broadcast", "wait", "conn", "returned"}}) <= 1
    /\ \A k \in Closers :
        /\ closePc[k] = "noop" => (closeResult[k] = "nil" /\ closed)
        /\ closePc[k] \in {"noop", "returned"} => (closingCloses = 1 /\ connCloses = 1)
        /\ k > 1 => closePc[k] \in {"idle", "noop"}

C5_Witness ==
    \E k \in Closers :
        closePc[k] = "noop" /\ closeResult[k] = "nil" /\ closingCloses = 1 /\ connCloses = 1

\* C6 as stated, in the form a finite run refutes: a Close call that has
\* started is never left without a next step, so that it can return.
C6_CloseCanAlwaysProceed ==
    \A k \in Closers :
        closePc[k] \in {"broadcast", "wait", "conn"} =>
            ENABLED (CloseBroadcast(k) \/ WaitGroupTimeout(k) \/ CloseConn(k))

\* C7 as stated: no output stream has close executed on it a second time.
C7_OutputClosedOnce == \A c \in Calls : outputCloses[c] <= 1

\* C8 as stated: no callback sends on an output stream its watcher has closed.
C8_NoSendOnClosedOutput == \A w \in Workers : procPc[w] # "sendPanic"

\* C9 as stated: with the scope of one Subscribe call cancelled and Close not
\* called, the closing signal and the connection are untouched, the other
\* calls keep their subscriptions and output streams open, and the process is
\* alive to deliver on them.
C9_CancelIsLocal ==
    \A c \in Calls :
        (ctxDone[c] /\ ~closed /\ \A b \in Calls \ {c} : ~ctxDone[b]) =>
            /\ ~closing
            /\ connCloses = 0
            /\ \A w \in Workers :
                 CallOf(w) # c => (watcherPc[w] \in {"none", "waiting"}
                                   /\ outputCloses[CallOf(w)] = 0)
            /\ ~panicked

\* C10 as stated, in the form a finite run refutes: once the closing signal is
\* broadcast, no watcher and no callback is cut short, and each one that has
\* not finished has a next step it can take without the consumer.
C10_ClosingUnblocksAll ==
    closing =>
        \A w \in Workers :
            /\ watcherPc[w] # "panic"
            /\ procPc[w] # "sendPanic"
            /\ watcherPc[w] = "waiting" => ENABLED Watcher(w)
            /\ procPc[w] \in {"select1", "select2", "ackCase"} =>
                  ENABLED (Select1(w) \/ Select2(w) \/ AckCase(w))
====
